---- MODULE Spec2Model ----
(***************************************************************************)
(* A model of manifest-editor's `Metadata` (src/src/lib.rs): the packages  *)
(* of a cargo project, the raw TOML tree of every manifest, the bump       *)
(* operations on `package.version` and `dump`, which writes the trees      *)
(* back to the manifest files.                                             *)
(*                                                                         *)
(* Text is modelled down to the level the code depends on: a version is a  *)
(* sequence of characters that semver parses and prints, a manifest file   *)
(* is a sequence of lines that toml parses and prints.                     *)
(***************************************************************************)
EXTENDS Integers, Sequences, FiniteSets, TLC

VARIABLES
    session,       \* "live" | "load_error" | "panicked"
    packages,      \* metadata.packages: sequence of [name, id, manifest_path]
    raw_toml_map,  \* PackageId -> toml::Value
    disk,          \* manifest_path -> text of the file (sequence of lines)
    calls,         \* number of calls made on the session
    last,          \* the last call and what it returned
    prev_map,      \* raw_toml_map before the last call
    prev_disk      \* disk before the last call

vars == <<session, packages, raw_toml_map, disk, calls, last, prev_map, prev_disk>>

(***************************************************************************)
(* Bounds of the model.                                                    *)
(***************************************************************************)
MaxPkgs == 2
MaxCalls == 2
MaxWritten == 1

(***************************************************************************)
(* Generic helpers.                                                        *)
(***************************************************************************)
Range(f) == {f[i] : i \in DOMAIN f}

RECURSIVE Concat(_)
Concat(ss) == IF ss = <<>> THEN <<>> ELSE Head(ss) \o Concat(Tail(ss))

Prefix(s, k) == SubSeq(s, 1, k)

Perms(S) == {o \in [1..Cardinality(S) -> S] : Range(o) = S}

(***************************************************************************)
(* toml::Value.  Every value has the same three fields so that values of   *)
(* different kinds can be compared.                                        *)
(***************************************************************************)
NoEntries == [k \in {} |-> TRUE]

String(cs) == [kind |-> "String", s |-> cs, t |-> NoEntries]
Boolean(cs) == [kind |-> "Boolean", s |-> cs, t |-> NoEntries]
Table(f) == [kind |-> "Table", s |-> <<>>, t |-> f]

With(f, k, v) == [x \in DOMAIN f \cup {k} |-> IF x = k THEN v ELSE f[x]]

\* The keys the manifests of the model use, in the order of a BTreeMap<String, _>.
KeyOrder == <<"b", "dependencies", "dup", "name", "package", "project", "version", "workspace">>

(***************************************************************************)
(* semver::Version: parse, increment_*, to_string.                         *)
(***************************************************************************)
Digits == <<"0", "1", "2", "3", "4", "5", "6", "7", "8", "9">>

IsDigit(c) == \E i \in 1..10 : Digits[i] = c
DigitVal(c) == (CHOOSE i \in 1..10 : Digits[i] = c) - 1
IsAlnum(c) == IsDigit(c) \/ c \in {"a", "x"}

RECURSIVE NumVal(_)
NumVal(cs) == IF cs = <<>> THEN 0
              ELSE NumVal(Prefix(cs, Len(cs) - 1)) * 10 + DigitVal(cs[Len(cs)])

RECURSIVE NumStr(_)
NumStr(n) == IF n < 10 THEN <<Digits[n + 1]>>
             ELSE NumStr(n \div 10) \o <<Digits[(n % 10) + 1]>>

\* The pieces of cs between the occurrences of sep.
RECURSIVE Split(_, _)
Split(cs, sep) ==
    IF \A i \in 1..Len(cs) : cs[i] # sep THEN <<cs>>
    ELSE LET i == CHOOSE j \in 1..Len(cs) : cs[j] = sep /\ \A l \in 1..(j - 1) : cs[l] # sep
         IN  <<Prefix(cs, i - 1)>> \o Split(SubSeq(cs, i + 1, Len(cs)), sep)

IsNumeric(cs) == /\ cs # <<>>
                 /\ \A i \in 1..Len(cs) : IsDigit(cs[i])
                 /\ (Len(cs) > 1 => cs[1] # "0")

IsIdent(cs) == cs # <<>> /\ \A i \in 1..Len(cs) : IsAlnum(cs[i])

NoVersion == [major |-> 0, minor |-> 0, patch |-> 0, pre |-> <<>>]

\* semver::Version::parse: major.minor.patch, optionally followed by -pre.
Version_parse(cs) ==
    LET dash == {i \in 1..Len(cs) : cs[i] = "-"}
        cut  == IF dash = {} THEN Len(cs) + 1
                ELSE CHOOSE i \in dash : \A j \in dash : i <= j
        core == Split(Prefix(cs, cut - 1), ".")
        pre  == SubSeq(cs, cut + 1, Len(cs))
        ok   == /\ Len(core) = 3
                /\ \A i \in 1..3 : IsNumeric(core[i])
                /\ (dash # {} =>
                      \A i \in 1..Len(Split(pre, ".")) : IsIdent(Split(pre, ".")[i]))
    IN  IF ok
        THEN [ok |-> TRUE,
              ver |-> [major |-> NumVal(core[1]), minor |-> NumVal(core[2]),
                       patch |-> NumVal(core[3]), pre |-> pre]]
        ELSE [ok |-> FALSE, ver |-> NoVersion]

increment_patch(v) == [v EXCEPT !.patch = v.patch + 1, !.pre = <<>>]
increment_minor(v) == [v EXCEPT !.minor = v.minor + 1, !.patch = 0, !.pre = <<>>]
increment_major(v) == [v EXCEPT !.major = v.major + 1, !.minor = 0, !.patch = 0, !.pre = <<>>]

Version_to_string(v) ==
    NumStr(v.major) \o <<".">> \o NumStr(v.minor) \o <<".">> \o NumStr(v.patch)
        \o (IF v.pre = <<>> THEN <<>> ELSE <<"-">> \o v.pre)

(***************************************************************************)
(* The text of a manifest: a sequence of lines.                            *)
(*   header  [path]        opens the table at path                         *)
(*   kv      key = val     sets a key of the open table                    *)
(*   comment # ...                                                         *)
(*   junk    anything that is not TOML                                     *)
(***************************************************************************)
Header(path) == [type |-> "header", path |-> path, key |-> "", val |-> <<>>]
KeyVal(k, v) == [type |-> "kv", path |-> <<>>, key |-> k, val |-> v]
Comment == [type |-> "comment", path |-> <<>>, key |-> "", val |-> <<>>]
Junk == [type |-> "junk", path |-> <<>>, key |-> "", val |-> <<>>]

Quoted(cs) == <<"\"">> \o cs \o <<"\"">>

\* The value a kv line's right-hand side denotes.
DecodeValue(val) ==
    IF Len(val) >= 2 /\ val[1] = "\"" /\ val[Len(val)] = "\""
         /\ \A i \in 2..(Len(val) - 1) : val[i] # "\""
    THEN [ok |-> TRUE, v |-> String(SubSeq(val, 2, Len(val) - 1))]
    ELSE IF val = <<"true">> \/ val = <<"false">>
    THEN [ok |-> TRUE, v |-> Boolean(val)]
    ELSE [ok |-> FALSE, v |-> Boolean(<<>>)]

EncodeValue(v) == IF v.kind = "String" THEN Quoted(v.s) ELSE v.s

\* Define path in table f as v; the tables on the way are created when missing.
\* Fails on a key that is already defined and on a path through a non-table.
RECURSIVE PutAt(_, _, _)
PutAt(f, path, v) ==
    LET k == Head(path) IN
    IF Len(path) = 1
    THEN IF k \in DOMAIN f THEN [ok |-> FALSE, t |-> NoEntries]
         ELSE [ok |-> TRUE, t |-> With(f, k, v)]
    ELSE LET sub == IF k \in DOMAIN f THEN f[k] ELSE Table(NoEntries) IN
         IF sub.kind # "Table" THEN [ok |-> FALSE, t |-> NoEntries]
         ELSE LET r == PutAt(sub.t, Tail(path), v) IN
              IF r.ok THEN [ok |-> TRUE, t |-> With(f, k, Table(r.t))]
              ELSE [ok |-> FALSE, t |-> NoEntries]

\* str::parse::<toml::Value>: acc is [ok, t, cur], the tree so far and the open table.
RECURSIVE ParseLines(_, _)
ParseLines(lines, acc) ==
    IF lines = <<>> \/ ~acc.ok THEN acc
    ELSE LET l == Head(lines)
             next ==
               CASE l.type = "comment" -> acc
                 [] l.type = "header" ->
                      LET r == PutAt(acc.t, l.path, Table(NoEntries))
                      IN  [ok |-> r.ok, t |-> r.t, cur |-> l.path]
                 [] l.type = "kv" ->
                      LET d == DecodeValue(l.val)
                          r == PutAt(acc.t, acc.cur \o <<l.key>>, d.v)
                      IN  [ok |-> d.ok /\ r.ok, t |-> r.t, cur |-> acc.cur]
                 [] OTHER -> [ok |-> FALSE, t |-> NoEntries, cur |-> <<>>]
         IN  ParseLines(Tail(lines), next)

toml_parse(text) ==
    LET r == ParseLines(text, [ok |-> TRUE, t |-> NoEntries, cur |-> <<>>])
    IN  [ok |-> r.ok, v |-> Table(IF r.ok THEN r.t ELSE NoEntries)]

\* toml::to_string of a table: its plain values first, then its sub-tables, each
\* under a header with its full path; keys in BTreeMap order.
RECURSIVE SerializeTable(_, _)
SerializeTable(f, path) ==
    LET plain  == SelectSeq(KeyOrder, LAMBDA k : k \in DOMAIN f /\ f[k].kind # "Table")
        tables == SelectSeq(KeyOrder, LAMBDA k : k \in DOMAIN f /\ f[k].kind = "Table")
    IN  [i \in 1..Len(plain) |-> KeyVal(plain[i], EncodeValue(f[plain[i]]))]
          \o Concat([i \in 1..Len(tables) |->
                       <<Header(path \o <<tables[i]>>)>>
                          \o SerializeTable(f[tables[i]].t, path \o <<tables[i]>>)])

toml_to_string(v) == SerializeTable(v.t, <<>>)

(***************************************************************************)
(* The project on disk: what `cargo metadata` reports and the manifests.   *)
(***************************************************************************)
Names == {"dup", "b"}
NoName == "nonexistent"

IdAt == <<"id1", "id2", "id3", "id4">>
PathAt == <<"p1/Cargo.toml", "p2/Cargo.toml", "p3/Cargo.toml", "p4/Cargo.toml">>

OtherName(name) == IF name = "dup" THEN "b" ELSE "dup"

ManifestKinds == {"plain", "pre", "inherit", "unversioned", "badver", "project", "syntax"}

\* The text of the manifest of package `name`, one text for each kind of manifest.
Manifest(kind, name) ==
    CASE kind = "plain" ->
           <<Comment, Header(<<"package">>),
             KeyVal("version", Quoted(<<"1", ".", "2", ".", "9">>)),
             KeyVal("name", Quoted(<<name>>))>>
      [] kind = "pre" ->
           <<Header(<<"package">>), KeyVal("name", Quoted(<<name>>)),
             KeyVal("version", Quoted(<<"0", ".", "9", ".", "0", "-", "x">>)),
             Header(<<"dependencies">>),
             KeyVal(OtherName(name), Quoted(<<"1", ".", "2", ".", "9">>))>>
      [] kind = "inherit" ->
           <<Header(<<"package">>), KeyVal("name", Quoted(<<name>>)),
             Header(<<"package", "version">>), KeyVal("workspace", <<"true">>)>>
      [] kind = "unversioned" ->
           <<Header(<<"package">>), KeyVal("name", Quoted(<<name>>))>>
      [] kind = "badver" ->
           <<Header(<<"package">>), KeyVal("name", Quoted(<<name>>)),
             KeyVal("version", Quoted(<<"1", ".", "x">>))>>
      [] kind = "project" ->
           <<Header(<<"project">>), KeyVal("name", Quoted(<<name>>)),
             KeyVal("version", Quoted(<<"1", ".", "2", ".", "9">>))>>
      [] OTHER ->
           <<Header(<<"package">>), Junk>>

Ids(pkgs) == {pkgs[i].id : i \in DOMAIN pkgs}
PackageOf(pkgs, id) == pkgs[CHOOSE i \in DOMAIN pkgs : pkgs[i].id = id]

(***************************************************************************)
(* Metadata::from_dir                                                      *)
(***************************************************************************)
from_dir_keep_going(pkgs, files) ==
    LET good == {id \in Ids(pkgs) : toml_parse(files[PackageOf(pkgs, id).manifest_path]).ok}
    IN  [ok |-> TRUE,
         metadata |-> pkgs,
         raw_toml_map |-> [id \in good |-> toml_parse(files[PackageOf(pkgs, id).manifest_path]).v]]

from_dir(pkgs, files) ==
    IF \A i \in DOMAIN pkgs : toml_parse(files[pkgs[i].manifest_path]).ok
    THEN [ok |-> TRUE,
          metadata |-> pkgs,
          raw_toml_map |->
             [id \in Ids(pkgs) |-> toml_parse(files[PackageOf(pkgs, id).manifest_path]).v]]
    ELSE [ok |-> FALSE, metadata |-> <<>>, raw_toml_map |-> NoEntries]

NoCall == [op |-> "from_dir", name |-> "", level |-> "", some |-> FALSE,
           ver |-> NoVersion, result |-> "ok", at |-> 0, kind |-> ""]

\* The projects of the model, each the list of <<name, kind of manifest>> of its
\* packages in the order `cargo metadata` reports them.
Workspaces ==
    {<<<<"dup", k>>>> : k \in ManifestKinds}
    \cup {<<<<"dup", "plain">>, <<"dup", "pre">>>>,
          <<<<"dup", "unversioned">>, <<"dup", "plain">>>>,
          <<<<"dup", "badver">>, <<"dup", "pre">>>>,
          <<<<"dup", "plain">>, <<"b", "pre">>>>,
          <<<<"dup", "pre">>, <<"b", "plain">>>>,
          <<<<"dup", "plain">>, <<"b", "inherit">>>>,
          <<<<"dup", "inherit">>, <<"b", "pre">>>>,
          <<<<"dup", "badver">>, <<"b", "plain">>>>,
          <<<<"dup", "project">>, <<"b", "unversioned">>>>,
          <<<<"dup", "plain">>, <<"b", "syntax">>>>,
          <<<<"dup", "syntax">>, <<"b", "pre">>>>,
          <<<<"dup", "pre">>, <<"dup", "plain">>>>,
          <<<<"dup", "project">>, <<"dup", "plain">>>>,
          <<<<"dup", "inherit">>, <<"dup", "plain">>>>,
          <<<<"dup", "unversioned">>, <<"b", "pre">>>>}
    \cup {<<<<"dup", "plain">>, <<"b", "inherit">>, <<"dup", "pre">>>>,
          <<<<"b", "pre">>, <<"dup", "project">>, <<"dup", "plain">>>>,
          <<<<"dup", "plain">>, <<"b", "pre">>, <<"b", "badver">>>>,
          <<<<"dup", "unversioned">>, <<"b", "syntax">>, <<"dup", "plain">>>>}

Init ==
    \E w \in Workspaces :
        LET n     == Len(w)
            pkgs  == [i \in 1..n |-> [name |-> w[i][1], id |-> IdAt[i],
                                      manifest_path |-> PathAt[i]]]
            files == [p \in {PathAt[i] : i \in 1..n} |->
                        LET i == CHOOSE j \in 1..n : PathAt[j] = p
                        IN  Manifest(w[i][2], w[i][1])]
            m     == from_dir(pkgs, files)
        IN  /\ n <= MaxPkgs
            /\ session = IF m.ok THEN "live" ELSE "load_error"
            /\ packages = m.metadata
            /\ raw_toml_map = m.raw_toml_map
            /\ disk = files
            /\ calls = 0
            /\ last = [NoCall EXCEPT !.result = IF m.ok THEN "ok" ELSE "err"]
            /\ prev_map = m.raw_toml_map
            /\ prev_disk = files

(***************************************************************************)
(* The bump of one package.                                                *)
(***************************************************************************)
\* package_id with the search from the back: the id of the last package with the name.
package_id_last(pkgs, name) ==
    LET hits == {i \in DOMAIN pkgs : pkgs[i].name = name}
    IN  IF hits = {} THEN [some |-> FALSE, id |-> ""]
        ELSE [some |-> TRUE, id |-> pkgs[CHOOSE i \in hits : \A j \in hits : i >= j].id]

\* Metadata::package_id: the id of the first package with the name.
package_id(pkgs, name) ==
    LET hits == {i \in DOMAIN pkgs : pkgs[i].name = name}
    IN  IF hits = {} THEN [some |-> FALSE, id |-> ""]
        ELSE [some |-> TRUE, id |-> pkgs[CHOOSE i \in hits : \A j \in hits : i <= j].id]

\* Metadata::package_mut: the document whose `package` table is borrowed.
package_mut(map, pkgs, name) ==
    LET pid == package_id(pkgs, name)
    IN  IF /\ pid.some
           /\ pid.id \in DOMAIN map
           /\ map[pid.id].kind = "Table"
           /\ "package" \in DOMAIN map[pid.id].t
           /\ map[pid.id].t["package"].kind = "Table"
        THEN [some |-> TRUE, id |-> pid.id]
        ELSE [some |-> FALSE, id |-> ""]

\* bump_raw_version that takes the string out of the node before it parses it, and
\* so leaves an empty string behind when the parse fails.
bump_raw_version_take(version, bump) ==
    IF version.kind # "String" THEN [some |-> FALSE, ver |-> NoVersion, node |-> version]
    ELSE LET p == Version_parse(version.s) IN
         IF ~p.ok THEN [some |-> FALSE, ver |-> NoVersion, node |-> String(<<>>)]
         ELSE LET ver == CASE bump = "Major" -> increment_major(p.ver)
                           [] bump = "Minor" -> increment_minor(p.ver)
                           [] OTHER -> increment_patch(p.ver)
              IN  [some |-> TRUE, ver |-> ver, node |-> String(Version_to_string(ver))]

\* bump_raw_version with the arms of Major and Minor exchanged.
bump_raw_version_swapped(version, bump) ==
    IF version.kind # "String" THEN [some |-> FALSE, ver |-> NoVersion, node |-> version]
    ELSE LET p == Version_parse(version.s) IN
         IF ~p.ok THEN [some |-> FALSE, ver |-> NoVersion, node |-> version]
         ELSE LET ver == CASE bump = "Major" -> increment_minor(p.ver)
                           [] bump = "Minor" -> increment_major(p.ver)
                           [] OTHER -> increment_patch(p.ver)
              IN  [some |-> TRUE, ver |-> ver, node |-> String(Version_to_string(ver))]

\* Metadata::bump_raw_version: the new version and the value left in the node.
bump_raw_version(version, bump) ==
    IF version.kind # "String" THEN [some |-> FALSE, ver |-> NoVersion, node |-> version]
    ELSE LET p == Version_parse(version.s) IN
         IF ~p.ok THEN [some |-> FALSE, ver |-> NoVersion, node |-> version]
         ELSE LET ver == CASE bump = "Major" -> increment_major(p.ver)
                           [] bump = "Minor" -> increment_minor(p.ver)
                           [] OTHER -> increment_patch(p.ver)
              IN  [some |-> TRUE, ver |-> ver, node |-> String(Version_to_string(ver))]

\* bump_version_inner that also rewrites the requirement on the bumped package in
\* the `dependencies` of the other documents.
bump_version_inner_cross_update(map, pkgs, name, bump) ==
    LET pm == package_mut(map, pkgs, name) IN
    IF ~pm.some THEN [some |-> FALSE, ver |-> NoVersion, map |-> map]
    ELSE LET pkg == map[pm.id].t["package"].t IN
         IF "version" \notin DOMAIN pkg THEN [some |-> FALSE, ver |-> NoVersion, map |-> map]
         ELSE LET r == bump_raw_version(pkg["version"], bump)
                  depends(id) == /\ r.some
                                 /\ id # pm.id
                                 /\ "dependencies" \in DOMAIN map[id].t
                                 /\ map[id].t["dependencies"].kind = "Table"
                                 /\ name \in DOMAIN map[id].t["dependencies"].t
              IN  [some |-> r.some, ver |-> r.ver,
                   map |-> [id \in DOMAIN map |->
                              IF id = pm.id
                              THEN [map[id] EXCEPT !.t["package"].t["version"] = r.node]
                              ELSE IF depends(id)
                              THEN [map[id] EXCEPT !.t["dependencies"].t[name] = r.node]
                              ELSE map[id]]]

\* Metadata::bump_version_inner: the returned Option and the map afterwards.
bump_version_inner(map, pkgs, name, bump) ==
    LET pm == package_mut(map, pkgs, name) IN
    IF ~pm.some THEN [some |-> FALSE, ver |-> NoVersion, map |-> map]
    ELSE LET pkg == map[pm.id].t["package"].t IN
         IF "version" \notin DOMAIN pkg THEN [some |-> FALSE, ver |-> NoVersion, map |-> map]
         ELSE LET r == bump_raw_version(pkg["version"], bump)
              IN  [some |-> r.some, ver |-> r.ver,
                   map |-> [map EXCEPT ![pm.id].t["package"].t["version"] = r.node]]

\* A bump that writes the bumped document through to its manifest file.
Bump_write_through(name, bump) ==
    /\ session = "live"
    /\ calls < MaxCalls
    /\ LET r   == bump_version_inner(raw_toml_map, packages, name, bump)
           pid == package_id(packages, name)
       IN  /\ raw_toml_map' = r.map
           /\ last' = [NoCall EXCEPT !.op = "bump", !.name = name, !.level = bump,
                                     !.some = r.some, !.ver = r.ver]
           /\ disk' = IF r.some
                      THEN [disk EXCEPT ![PackageOf(packages, pid.id).manifest_path] =
                              toml_to_string(r.map[pid.id])]
                      ELSE disk
    /\ prev_map' = raw_toml_map
    /\ prev_disk' = disk
    /\ calls' = calls + 1
    /\ UNCHANGED <<session, packages>>

Bump(name, bump) ==
    /\ session = "live"
    /\ calls < MaxCalls
    /\ LET r == bump_version_inner(raw_toml_map, packages, name, bump)
       IN  /\ raw_toml_map' = r.map
           /\ last' = [NoCall EXCEPT !.op = "bump", !.name = name, !.level = bump,
                                     !.some = r.some, !.ver = r.ver]
    /\ prev_map' = raw_toml_map
    /\ prev_disk' = disk
    /\ calls' = calls + 1
    /\ UNCHANGED <<session, packages, disk>>

bump_patch_version == \E name \in Names \cup {NoName} : Bump(name, "Patch")
bump_minor_version == \E name \in Names \cup {NoName} : Bump(name, "Minor")
bump_major_version == \E name \in Names \cup {NoName} : Bump(name, "Major")

(***************************************************************************)
(* The patch bump of every package.                                        *)
(***************************************************************************)
\* Metadata::get_version_mut: whether the node package.version exists.
get_version_mut(table) ==
    /\ table.kind = "Table"
    /\ "package" \in DOMAIN table.t
    /\ table.t["package"].kind = "Table"
    /\ "version" \in DOMAIN table.t["package"].t

\* The body of the loop of bump_all_patch_versions on one document: both unwraps
\* panic, the first on a version that is no string, the second on one that does
\* not parse.
bump_all_body(raw_map) ==
    IF ~get_version_mut(raw_map) THEN [panic |-> FALSE, doc |-> raw_map]
    ELSE LET version == raw_map.t["package"].t["version"] IN
         IF version.kind # "String" THEN [panic |-> TRUE, doc |-> raw_map]
         ELSE LET p == Version_parse(version.s) IN
              IF ~p.ok THEN [panic |-> TRUE, doc |-> raw_map]
              ELSE [panic |-> FALSE,
                    doc |-> [raw_map EXCEPT !.t["package"].t["version"] =
                               String(Version_to_string(increment_patch(p.ver)))]]

\* Metadata::bump_all_patch_versions, the HashMap iterated in `order`.
RECURSIVE bump_all_patch_versions(_, _)
bump_all_patch_versions(map, order) ==
    IF order = <<>> THEN [panic |-> FALSE, map |-> map]
    ELSE LET r == bump_all_body(map[Head(order)]) IN
         IF r.panic THEN [panic |-> TRUE, map |-> map]
         ELSE bump_all_patch_versions([map EXCEPT ![Head(order)] = r.doc], Tail(order))

BumpAll ==
    /\ session = "live"
    /\ calls < MaxCalls
    /\ \E order \in Perms(DOMAIN raw_toml_map) :
         LET r == bump_all_patch_versions(raw_toml_map, order)
         IN  /\ raw_toml_map' = r.map
             /\ session' = IF r.panic THEN "panicked" ELSE "live"
             /\ last' = [NoCall EXCEPT !.op = "bump_all",
                                       !.result = IF r.panic THEN "panic" ELSE "ok"]
    /\ prev_map' = raw_toml_map
    /\ prev_disk' = disk
    /\ calls' = calls + 1
    /\ UNCHANGED <<packages, disk>>

(***************************************************************************)
(* Metadata::dump.  A fault [at, kind, written] makes the step `kind` of   *)
(* package number `at` fail: File::create, toml::to_string, or write_all   *)
(* after `written` lines; at = 0 is a run without fault.                   *)
(***************************************************************************)
FaultKinds == {"create", "serialize", "write"}
NoFault == [at |-> 0, kind |-> "", written |-> 0]

RECURSIVE dump_from(_, _, _, _, _)
dump_from(i, map, pkgs, files, fault) ==
    IF i > Len(pkgs) THEN [result |-> "ok", at |-> 0, disk |-> files]
    ELSE LET p == pkgs[i]
             failing(kind) == fault.at = i /\ fault.kind = kind
         IN
         IF failing("create") THEN [result |-> "err", at |-> i, disk |-> files]
         ELSE LET created == [files EXCEPT ![p.manifest_path] = <<>>] IN
              IF p.id \notin DOMAIN map THEN [result |-> "panic", at |-> i, disk |-> created]
              ELSE IF failing("serialize") THEN [result |-> "err", at |-> i, disk |-> created]
              ELSE LET text == toml_to_string(map[p.id]) IN
                   IF failing("write")
                   THEN [result |-> "err", at |-> i,
                         disk |-> [files EXCEPT ![p.manifest_path] =
                                     Prefix(text, IF fault.written < Len(text)
                                                  THEN fault.written ELSE Len(text) - 1)]]
                   ELSE dump_from(i + 1, map, pkgs,
                                  [files EXCEPT ![p.manifest_path] = text], fault)

\* dump that returns Ok from inside the loop, after the first package.
dump_first_only(map, pkgs, files, fault) ==
    dump_from(1, map, SubSeq(pkgs, 1, 1), files, fault)

dump(map, pkgs, files, fault) == dump_from(1, map, pkgs, files, fault)

Dump ==
    /\ session = "live"
    /\ calls < MaxCalls
    /\ \E fault \in {NoFault} \cup
                    [at : 1..Len(packages), kind : FaultKinds, written : 0..MaxWritten] :
         LET r == dump(raw_toml_map, packages, disk, fault)
         IN  /\ (fault.kind # "write" => fault.written = 0)
             /\ disk' = r.disk
             /\ session' = IF r.result = "panic" THEN "panicked" ELSE "live"
             /\ last' = [NoCall EXCEPT !.op = "dump", !.result = r.result,
                                       !.at = r.at, !.kind = fault.kind]
    /\ prev_map' = raw_toml_map
    /\ prev_disk' = disk
    /\ calls' = calls + 1
    /\ UNCHANGED <<packages, raw_toml_map>>

Next ==
    \/ bump_patch_version
    \/ bump_minor_version
    \/ bump_major_version
    \/ BumpAll
    \/ Dump

Spec == Init /\ [][Next]_vars

(***************************************************************************)
(* What the properties below speak about.                                  *)
(***************************************************************************)
VersionNode(doc) == doc.t["package"].t["version"]

\* package.version of doc is a string that parses as a semantic version.
WellFormed(doc) ==
    /\ get_version_mut(doc)
    /\ VersionNode(doc).kind = "String"
    /\ Version_parse(VersionNode(doc).s).ok

\* The packages called name, as positions in discovery order, and the first of them.
Matches(name) == {i \in DOMAIN packages : packages[i].name = name}
FirstMatch(name) == CHOOSE i \in Matches(name) : \A j \in Matches(name) : i <= j

\* The navigate-parse-increment-rewrite patch step on one document, a miss skipped.
PatchStep(doc) ==
    IF WellFormed(doc)
    THEN [doc EXCEPT !.t["package"].t["version"] =
            String(Version_to_string(increment_patch(Version_parse(VersionNode(doc).s).ver)))]
    ELSE doc

Triple(v) == <<v.major, v.minor, v.patch>>

Bumped(v, level) ==
    CASE level = "Major" -> <<v.major + 1, 0, 0>>
      [] level = "Minor" -> <<v.major, v.minor + 1, 0>>
      [] OTHER -> <<v.major, v.minor, v.patch + 1>>

FileOf(i) == disk[packages[i].manifest_path]
DocOf(i) == raw_toml_map[packages[i].id]

(***************************************************************************)
(* C1: bump_all_patch_versions never fails: it completes normally, every   *)
(* document with a well-formed package.version has its patch incremented   *)
(* once and every other document is skipped and left unchanged.            *)
(***************************************************************************)
C1_BumpAllNeverFails ==
    last.op = "bump_all" =>
        /\ last.result = "ok"
        /\ session = "live"
        /\ \A id \in DOMAIN prev_map : raw_toml_map[id] = PatchStep(prev_map[id])

(***************************************************************************)
(* C2: a bump of one package that returns the empty result leaves every    *)
(* document of the session as it was before the call.                      *)
(***************************************************************************)
C2_EmptyResultChangesNothing ==
    (last.op = "bump" /\ ~last.some) => raw_toml_map = prev_map

\* A bump that found the package and a version string that does not parse.
C2_Witness ==
    /\ last.op = "bump" /\ ~last.some
    /\ Matches(last.name) # {}
    /\ get_version_mut(DocOf(FirstMatch(last.name)))
    /\ VersionNode(DocOf(FirstMatch(last.name))).kind = "String"

C4_OnlyFirstMatchBumped ==
    (last.op = "bump" /\ Matches(last.name) # {}) =>
        LET first == FirstMatch(last.name) IN
        /\ \A i \in Matches(last.name) \ {first} :
              raw_toml_map[packages[i].id] = prev_map[packages[i].id]
        /\ (~WellFormed(prev_map[packages[first].id])
              => ~last.some /\ raw_toml_map = prev_map)
        /\ (last.some => raw_toml_map[packages[first].id] # prev_map[packages[first].id])

\* Two packages share the name and the bump changed the first.
C4_Witness ==
    /\ last.op = "bump" /\ last.some
    /\ Cardinality(Matches(last.name)) >= 2
    /\ \A i \in Matches(last.name) : WellFormed(prev_map[packages[i].id])

(***************************************************************************)
(* C5: when dump fails at package N, the files of packages 1..N-1 hold the *)
(* serialization of their documents and the files of packages N..M hold    *)
(* what they held before the call.                                         *)
(***************************************************************************)
C5_FailedDumpLeavesLaterFiles ==
    (last.op = "dump" /\ last.result = "err") =>
        /\ \A i \in 1..(last.at - 1) : FileOf(i) = toml_to_string(DocOf(i))
        /\ \A i \in last.at..Len(packages) :
              FileOf(i) = prev_disk[packages[i].manifest_path]

(***************************************************************************)
(* C6: after a dump that returns success every manifest file parses back   *)
(* to the document in memory; a dump right after construction leaves files *)
(* that parse to the trees that were loaded.                               *)
(***************************************************************************)
C6_DumpRoundTrips ==
    (last.op = "dump" /\ last.result = "ok") =>
        /\ \A i \in DOMAIN packages :
              toml_parse(FileOf(i)) = [ok |-> TRUE, v |-> DocOf(i)]
        /\ (calls = 1 =>
              \A i \in DOMAIN packages :
                 toml_parse(FileOf(i)) = toml_parse(prev_disk[packages[i].manifest_path]))

\* A successful dump of a session in which a document no longer was what its file held.
C6_Witness ==
    /\ last.op = "dump" /\ last.result = "ok"
    /\ \E i \in DOMAIN packages :
          /\ toml_parse(prev_disk[packages[i].manifest_path]).v # DocOf(i)
          /\ WellFormed(DocOf(i))

(***************************************************************************)
(* C7: no bump operation changes a manifest file on disk.                  *)
(***************************************************************************)
C7_BumpsDoNotTouchDisk ==
    last.op \in {"bump", "bump_all"} => disk = prev_disk

\* A bump changed a document, and the file still parses to the old one.
C7_Witness ==
    /\ last.op = "bump" /\ last.some
    /\ raw_toml_map # prev_map
    /\ \E i \in DOMAIN packages : toml_parse(FileOf(i)).v # DocOf(i)

(***************************************************************************)
(* C8: in every state of a constructed session the ids of `packages` are   *)
(* the keys of the documents map, and dump's lookup never panics.          *)
(***************************************************************************)
C8_PackagesMatchDocuments ==
    /\ session # "load_error" => Ids(packages) = DOMAIN raw_toml_map
    /\ last.op = "dump" => last.result # "panic"

\* A session that went on after a failed dump.
C8_Witness ==
    /\ session = "live"
    /\ last.op = "dump" /\ last.result = "err"
    /\ Len(packages) >= 2
    /\ raw_toml_map # [id \in DOMAIN raw_toml_map |->
                         toml_parse(disk[PackageOf(packages, id).manifest_path]).v]

(***************************************************************************)
(* C9: a successful bump of one package changes the value at               *)
(* package.version of the resolved package's document and nothing else:    *)
(* not another key of that document, not another document, not the list    *)
(* of packages.                                                            *)
(***************************************************************************)
C9_BumpChangesOnlyVersion ==
    [][(last'.op = "bump" /\ last'.some) =>
         LET id  == packages[FirstMatch(last'.name)].id
             old == raw_toml_map[id]
             new == raw_toml_map'[id]
         IN  /\ packages' = packages
             /\ DOMAIN raw_toml_map' = DOMAIN raw_toml_map
             /\ \A other \in DOMAIN raw_toml_map \ {id} :
                   raw_toml_map'[other] = raw_toml_map[other]
             /\ new.kind = old.kind
             /\ DOMAIN new.t = DOMAIN old.t
             /\ \A k \in DOMAIN old.t \ {"package"} : new.t[k] = old.t[k]
             /\ new.t["package"].kind = "Table"
             /\ DOMAIN new.t["package"].t = DOMAIN old.t["package"].t
             /\ \A k \in DOMAIN old.t["package"].t \ {"version"} :
                   new.t["package"].t[k] = old.t["package"].t[k]
             /\ VersionNode(new) # VersionNode(old)]_vars

\* A successful bump of a package that another package of the session depends on.
C9_Witness ==
    /\ last.op = "bump" /\ last.some
    /\ \E id \in DOMAIN raw_toml_map :
          /\ id # packages[FirstMatch(last.name)].id
          /\ "dependencies" \in DOMAIN raw_toml_map[id].t
          /\ last.name \in DOMAIN raw_toml_map[id].t["dependencies"].t

(***************************************************************************)
(* C10: the outcome of bump_all_patch_versions is the same for every order *)
(* in which the documents map is iterated, and it is the patch step        *)
(* applied once to each document on its own.                               *)
(***************************************************************************)
C10_BumpAllOrderIrrelevant ==
    last.op = "bump_all" =>
        /\ \A o \in Perms(DOMAIN prev_map) :
              bump_all_patch_versions(prev_map, o).map = raw_toml_map
        /\ raw_toml_map = [id \in DOMAIN prev_map |-> PatchStep(prev_map[id])]

====
